---- MODULE Spec2Model ----
(***************************************************************************)
(* Measurement-based single-qubit gates of mbqcirq: the gate objects and   *)
(* their gate graphs (gates/__init__.py, gates/single_qubit.py), the       *)
(* B(phi) projector (measurements/projectors.py) and the execution of a    *)
(* gate graph against a shared store of classical measurement outcomes;    *)
(* the structural graphs (graphs/), the graph and cluster states built on  *)
(* them and their tester (states/).                                        *)
(*                                                                         *)
(* Angles are integers counted in units of pi/PI; the exponents of the     *)
(* Pauli power gates are integers.                                         *)
(***************************************************************************)
EXTENDS Integers, Sequences, FiniteSets, TLC

VARIABLES
    gate,    \* the gate objects: class, alpha, beta, gamma, gate_label, gate_graph
    ctor,    \* the constructor call that made each gate object
    store,   \* the outcome store: measurement label -> outcome
    run,     \* the execution in progress: gate, position, operations applied
    writes,  \* the labels the execution of each gate has written in this trial
    ret,     \* the value the last call on a gate or state object returned
    qstate,  \* the backend's quantum state during an execution
    gs,      \* the graph state object: graph, qubits, circuit, state vector
    test     \* the TestClusterState object: state, nodes, scalar products, result

vars == <<gate, ctor, store, run, writes, ret, qstate, gs, test>>

(***************************************************************************)
(* Bounds and input sets.                                                  *)
(***************************************************************************)
MaxExp == 2
MaxNodes == 3
MaxSide == 2

GateIds == {1, 2}
Angles == {0, 1}
Exps == 0 .. MaxExp
GateLabels == {"", "g"}
Outcomes == {0, 1}

\* np.pi, as a number of angle units
PI == 4

NoGate == [cls |-> "none"]

(***************************************************************************)
(* networkx.path_graph(n): nodes 0..n-1 in insertion order, edges i-(i+1). *)
(***************************************************************************)
path_graph(n) ==
    [nodes |-> [i \in 1 .. n |-> i - 1],
     edges |-> {{i, i + 1} : i \in 0 .. n - 2},
     added |-> [i \in 1 .. n - 1 |-> <<i - 1, i>>]]

(***************************************************************************)
(* The measurement labels the f-strings of SU2Gate build from gate_label.  *)
(***************************************************************************)
Label_b_q0(gate_label) == "b_q0[" \o gate_label \o "]"
Label_b_q1(gate_label) == "b_q1[" \o gate_label \o "]"
Label_b_q2(gate_label) == "b_q2[" \o gate_label \o "]"
Label_b_q3(gate_label) == "b_q3[" \o gate_label \o "]"

\* an entry of 'previous_measurement_dependencies': None or a tuple of labels
NoneDep == [is_none |-> TRUE, labels |-> << >>]
Dep(t) == [is_none |-> FALSE, labels |-> t]

\* (-1) ** b for a measurement outcome b
MinusOnePow(b) == IF b % 2 = 0 THEN 1 ELSE -1

(***************************************************************************)
(* The 'previous_measurement_dependencies' lists of the five nodes.        *)
(***************************************************************************)
Deps_q0(gate_label) == <<NoneDep>>

Deps_q1(gate_label) == <<Dep(<<Label_b_q0(gate_label)>>)>>

\* faulty variant: node 2 names the label it produces itself
Deps_q2_SelfReference(gate_label) == <<Dep(<<Label_b_q2(gate_label)>>)>>

Deps_q2(gate_label) == <<Dep(<<Label_b_q1(gate_label)>>)>>

\* faulty variant: node 3 names the label of the node after the next measurement
Deps_q3_Forward(gate_label) == <<Dep(<<Label_b_q3(gate_label)>>)>>

Deps_q3(gate_label) == <<Dep(<<Label_b_q2(gate_label)>>)>>

\* faulty variant: the first tuple of node 4 lists its labels in reverse
Deps_q4_Reversed(gate_label) ==
    <<Dep(<<Label_b_q3(gate_label), Label_b_q1(gate_label)>>),
      Dep(<<Label_b_q0(gate_label), Label_b_q2(gate_label)>>)>>

Deps_q4(gate_label) ==
    <<Dep(<<Label_b_q1(gate_label), Label_b_q3(gate_label)>>),
      Dep(<<Label_b_q0(gate_label), Label_b_q2(gate_label)>>)>>

(***************************************************************************)
(* SU2Gate._operation_dictionary as built by SU2Gate.__init__: the         *)
(* dependency labels are formatted once, from the label at construction.   *)
(***************************************************************************)
OperationDictionary(gate_label) ==
    [n \in 0 .. 4 |->
        CASE n = 0 ->
               [gates |-> <<"Projector_B_phi">>,
                parameters |-> <<"_f_params_q0_t0">>,
                previous_measurement_dependencies |-> Deps_q0(gate_label)]
          [] n = 1 ->
               [gates |-> <<"Projector_B_phi">>,
                parameters |-> <<"_f_params_q1_t0">>,
                previous_measurement_dependencies |-> Deps_q1(gate_label)]
          [] n = 2 ->
               [gates |-> <<"Projector_B_phi">>,
                parameters |-> <<"_f_params_q2_t0">>,
                previous_measurement_dependencies |-> Deps_q2(gate_label)]
          [] n = 3 ->
               [gates |-> <<"Projector_B_phi">>,
                parameters |-> <<"_f_params_q3_t0">>,
                previous_measurement_dependencies |-> Deps_q3(gate_label)]
          [] n = 4 ->
               [gates |-> <<"XPowGate", "ZPowGate">>,
                parameters |-> <<"_f_params_q4_t0", "_f_params_q4_t1">>,
                previous_measurement_dependencies |-> Deps_q4(gate_label)]]

(***************************************************************************)
(* MBQGate._initialize_graph_nodes: nx.set_node_attributes(graph, dict)    *)
(* attaches dict[n] to every node n of the graph that the dict names.      *)
(***************************************************************************)
NodeSet(graph) == {graph.nodes[i] : i \in DOMAIN graph.nodes}

initialize_graph_nodes(graph, dict) ==
    [nodes |-> graph.nodes,
     edges |-> graph.edges,
     attr |-> [n \in NodeSet(graph) \cap DOMAIN dict |-> dict[n]]]

(***************************************************************************)
(* The parameter providers, bound methods of the gate object: they read    *)
(* alpha, beta, gamma and gate_label of self when they are called.         *)
(***************************************************************************)
f_params_q0_t0(self, args) ==
    [phi |-> 0, measurement_label |-> Label_b_q0(self.gate_label)]

\* faulty variant: the angle of node 1 ignores the outcome of node 0
f_params_q1_t0_NoFlip(self, args) ==
    [phi |-> -self.alpha,
     measurement_label |-> Label_b_q1(self.gate_label)]

f_params_q1_t0(self, args) ==
    [phi |-> (-self.alpha) * MinusOnePow(args[1]),
     measurement_label |-> Label_b_q1(self.gate_label)]

\* faulty variant: node 2 reports its outcome under the label of node 1
f_params_q2_t0_LabelOfQ1(self, args) ==
    [phi |-> (-self.beta) * MinusOnePow(args[1]),
     measurement_label |-> Label_b_q1(self.gate_label)]

f_params_q2_t0(self, args) ==
    [phi |-> (-self.beta) * MinusOnePow(args[1]),
     measurement_label |-> Label_b_q2(self.gate_label)]

f_params_q3_t0(self, args) ==
    [phi |-> (-self.gamma) * MinusOnePow(args[1]),
     measurement_label |-> Label_b_q3(self.gate_label)]

\* faulty variant: the X correction forgets the outcome of node 3
f_params_q4_t0_FirstOnly(self, args) == [exponent |-> args[1]]

f_params_q4_t0(self, args) == [exponent |-> args[1] + args[2]]

\* faulty variant: the Z correction forgets the outcome of node 2
f_params_q4_t1_FirstOnly(self, args) == [exponent |-> args[1]]

f_params_q4_t1(self, args) == [exponent |-> args[1] + args[2]]

\* number of positional inputs of each provider
ProviderArity(name) ==
    CASE name = "_f_params_q0_t0" -> 0
      [] name \in {"_f_params_q1_t0", "_f_params_q2_t0", "_f_params_q3_t0"} -> 1
      [] name \in {"_f_params_q4_t0", "_f_params_q4_t1"} -> 2

\* names of the positional inputs of each provider, in signature order
ProviderInputs(name) ==
    CASE name = "_f_params_q0_t0" -> << >>
      [] name = "_f_params_q1_t0" -> <<"b_q0">>
      [] name = "_f_params_q2_t0" -> <<"b_q1">>
      [] name = "_f_params_q3_t0" -> <<"b_q2">>
      [] name = "_f_params_q4_t0" -> <<"b_q1", "b_q3">>
      [] name = "_f_params_q4_t1" -> <<"b_q0", "b_q2">>

CallProvider(self, name, args) ==
    CASE name = "_f_params_q0_t0" -> f_params_q0_t0(self, args)
      [] name = "_f_params_q1_t0" -> f_params_q1_t0(self, args)
      [] name = "_f_params_q2_t0" -> f_params_q2_t0(self, args)
      [] name = "_f_params_q3_t0" -> f_params_q3_t0(self, args)
      [] name = "_f_params_q4_t0" -> f_params_q4_t0(self, args)
      [] name = "_f_params_q4_t1" -> f_params_q4_t1(self, args)

(***************************************************************************)
(* Constructors.                                                           *)
(***************************************************************************)
SU2Gate_init(cls, alpha, beta, gamma, gate_label) ==
    [cls |-> cls,
     alpha |-> alpha,
     beta |-> beta,
     gamma |-> gamma,
     gate_label |-> gate_label,
     gate_graph |-> initialize_graph_nodes(path_graph(5),
                                           OperationDictionary(gate_label))]

\* - np.pi * exponent
MinusPiTimes(exponent) == -(PI * exponent)

XPowGate_init(cls, exponent) ==
    SU2Gate_init(cls, 0, 0, MinusPiTimes(exponent), "")

YPowGate_init(cls, exponent) ==
    SU2Gate_init(cls, 0, MinusPiTimes(exponent), MinusPiTimes(exponent), "")

\* faulty variant: the Z power puts its angle in the gamma slot
ZPowGate_init_GammaSlot(cls, exponent) ==
    SU2Gate_init(cls, 0, 0, MinusPiTimes(exponent), "")

ZPowGate_init(cls, exponent) ==
    SU2Gate_init(cls, 0, MinusPiTimes(exponent), 0, "")

X_init == XPowGate_init("X", 1)
Y_init == YPowGate_init("Y", 1)
Z_init == ZPowGate_init("Z", 1)

Idle == [status |-> "idle"]

\* nothing returned to the caller
NoRet == [kind |-> "none"]

\* a backend whose quantum state is not followed
Opaque == [kind |-> "opaque"]

\* no graph state object, no tester object
NoState == [status |-> "none"]
NoTest == [status |-> "none"]

Init ==
    /\ gate = [g \in GateIds |-> NoGate]
    /\ ctor = [g \in GateIds |-> NoGate]
    /\ store = << >>
    /\ run = Idle
    /\ writes = [g \in GateIds |-> {}]
    /\ ret = NoRet
    /\ qstate = Opaque
    /\ gs = NoState
    /\ test = NoTest

\* gate objects are created one after the other, between executions
CanConstruct(g) ==
    /\ gate[g] = NoGate
    /\ \A h \in GateIds : h < g => gate[h] # NoGate
    /\ run.status # "running"

ConstructSU2Gate(g) ==
    /\ CanConstruct(g)
    /\ \E alpha \in Angles, beta \in Angles, gamma \in Angles, gate_label \in GateLabels :
          /\ gate' = [gate EXCEPT ![g] = SU2Gate_init("SU2Gate", alpha, beta, gamma, gate_label)]
          /\ ctor' = [ctor EXCEPT ![g] = [cls |-> "SU2Gate", alpha |-> alpha, beta |-> beta,
                                          gamma |-> gamma, gate_label |-> gate_label]]
    /\ UNCHANGED <<store, run, writes, ret, qstate, gs, test>>

ConstructPowGate(g) ==
    /\ CanConstruct(g)
    /\ \E cls \in {"XPowGate", "YPowGate", "ZPowGate"}, exponent \in Exps :
          /\ gate' = [gate EXCEPT ![g] =
                        CASE cls = "XPowGate" -> XPowGate_init(cls, exponent)
                          [] cls = "YPowGate" -> YPowGate_init(cls, exponent)
                          [] cls = "ZPowGate" -> ZPowGate_init(cls, exponent)]
          /\ ctor' = [ctor EXCEPT ![g] = [cls |-> cls, exponent |-> exponent]]
    /\ UNCHANGED <<store, run, writes, ret, qstate, gs, test>>

ConstructPauli(g) ==
    /\ CanConstruct(g)
    /\ \E cls \in {"X", "Y", "Z"} :
          /\ gate' = [gate EXCEPT ![g] =
                        CASE cls = "X" -> X_init
                          [] cls = "Y" -> Y_init
                          [] cls = "Z" -> Z_init]
          /\ ctor' = [ctor EXCEPT ![g] = [cls |-> cls, exponent |-> 1]]
    /\ UNCHANGED <<store, run, writes, ret, qstate, gs, test>>

(***************************************************************************)
(* Projector_B_phi: the gate object and the operations _decompose_ yields  *)
(* on its one qubit.  A ZPowGate exponent is kept as the fraction          *)
(* <<numerator, denominator>> of the division by np.pi.                    *)
(***************************************************************************)
Projector_B_phi(phi, measurement_label, collapse_qubit_state) ==
    [gate |-> "Projector_B_phi",
     phi |-> phi,
     measurement_label |-> measurement_label,
     collapse_qubit_state |-> collapse_qubit_state]

\* faulty variant: the two steps after the measurement come in the order of
\* the two steps before it
Projector_decompose_Repeat(self, qubit) ==
    <<[op |-> "ZPowGate", exponent |-> <<-self.phi, PI>>, qubits |-> <<qubit[1]>>],
      [op |-> "H", qubits |-> <<qubit[1]>>],
      [op |-> "measure", key |-> self.measurement_label, qubits |-> <<qubit[1]>>]>>
    \o (IF self.collapse_qubit_state
        THEN <<[op |-> "ZPowGate", exponent |-> <<self.phi, PI>>, qubits |-> <<qubit[1]>>],
               [op |-> "H", qubits |-> <<qubit[1]>>]>>
        ELSE << >>)

Projector_decompose(self, qubit) ==
    <<[op |-> "ZPowGate", exponent |-> <<-self.phi, PI>>, qubits |-> <<qubit[1]>>],
      [op |-> "H", qubits |-> <<qubit[1]>>],
      [op |-> "measure", key |-> self.measurement_label, qubits |-> <<qubit[1]>>]>>
    \o (IF self.collapse_qubit_state
        THEN <<[op |-> "H", qubits |-> <<qubit[1]>>],
               [op |-> "ZPowGate", exponent |-> <<self.phi, PI>>, qubits |-> <<qubit[1]>>]>>
        ELSE << >>)

\* cirq.XPowGate / cirq.ZPowGate with an integer exponent e act as the Pauli
\* operator itself when e is odd and as the identity when e is even
PauliPowerParity(exponent) == exponent % 2

(***************************************************************************)
(* Pauli operators on a set Q of qubits, i^p * prod_q X_q^x[q] Z_q^z[q],   *)
(* and what the Clifford operations of the backend do to them.             *)
(***************************************************************************)
PauliI(Q) == [p |-> 0, x |-> [q \in Q |-> 0], z |-> [q \in Q |-> 0]]
PauliX(Q, a) == [PauliI(Q) EXCEPT !.x[a] = 1]
PauliZ(Q, a) == [PauliI(Q) EXCEPT !.z[a] = 1]

\* the matrix product A B
PauliMul(A, B) ==
    [p |-> (A.p + B.p
            + 2 * Cardinality({q \in DOMAIN A.x : A.z[q] = 1 /\ B.x[q] = 1})) % 4,
     x |-> [q \in DOMAIN A.x |-> (A.x[q] + B.x[q]) % 2],
     z |-> [q \in DOMAIN A.z |-> (A.z[q] + B.z[q]) % 2]]

Anticommute(A, B) ==
    (Cardinality({q \in DOMAIN A.x : A.x[q] = 1 /\ B.z[q] = 1})
     + Cardinality({q \in DOMAIN A.x : A.z[q] = 1 /\ B.x[q] = 1})) % 2 = 1

\* the qubits a Pauli operator acts on
Support(A) == {q \in DOMAIN A.x : A.x[q] = 1 \/ A.z[q] = 1}

\* H A H on qubit a: X and Z are exchanged
ConjH(A, a) ==
    [p |-> (A.p + 2 * A.x[a] * A.z[a]) % 4,
     x |-> [A.x EXCEPT ![a] = A.z[a]],
     z |-> [A.z EXCEPT ![a] = A.x[a]]]

\* CZ A CZ on qubits a, b: X_a -> X_a Z_b, X_b -> Z_a X_b
ConjCZ(A, a, b) ==
    [p |-> (A.p + 2 * A.x[a] * A.x[b]) % 4,
     x |-> A.x,
     z |-> [A.z EXCEPT ![a] = (@ + A.x[b]) % 2, ![b] = (@ + A.x[a]) % 2]]

\* X^e A X^-e and Z^e A Z^-e on qubit a, for an integer e
ConjXPow(A, a, e) == [A EXCEPT !.p = (@ + 2 * PauliPowerParity(e) * A.z[a]) % 4]
ConjZPow(A, a, e) == [A EXCEPT !.p = (@ + 2 * PauliPowerParity(e) * A.x[a]) % 4]

\* the operations whose action on Pauli operators is followed: a power gate
\* only with an integer exponent
IsClifford(o) ==
    \/ o.op \in {"H", "CZ", "I", "X", "Z"}
    \/ o.op \in {"XPowGate", "ZPowGate"} /\ o.exponent[1] % o.exponent[2] = 0

\* U A U^-1 for the unitary U of operation o
Conj(A, o) ==
    CASE o.op = "H" -> ConjH(A, o.qubits[1])
      [] o.op = "CZ" -> ConjCZ(A, o.qubits[1], o.qubits[2])
      [] o.op = "I" -> A
      [] o.op = "X" -> ConjXPow(A, o.qubits[1], 1)
      [] o.op = "Z" -> ConjZPow(A, o.qubits[1], 1)
      [] o.op = "XPowGate" -> ConjXPow(A, o.qubits[1], o.exponent[1] \div o.exponent[2])
      [] o.op = "ZPowGate" -> ConjZPow(A, o.qubits[1], o.exponent[1] \div o.exponent[2])

(***************************************************************************)
(* The backend state of an execution, followed as a stabilizer state: the  *)
(* first node's qubit carries an arbitrary input state, every other qubit  *)
(* starts in |+>, and a CZ entangles the two qubits of every edge.  gens   *)
(* generate the stabilizer group; lx and lz are the images of the input    *)
(* qubit's X and Z.                                                        *)
(***************************************************************************)
RECURSIVE EntangleEdges(_, _)
EntangleEdges(A, edges) ==
    IF edges = {} THEN A
    ELSE LET e == CHOOSE e \in edges : TRUE
             a == CHOOSE a \in e : TRUE
             b == CHOOSE b \in e : b # a
         IN EntangleEdges(ConjCZ(A, a, b), edges \ {e})

Resource(graph) ==
    LET Q == NodeSet(graph)
        rest == [i \in 1 .. Len(graph.nodes) - 1 |-> graph.nodes[i + 1]]
    IN [kind |-> "stabilizer",
        gens |-> [i \in DOMAIN rest |-> EntangleEdges(PauliX(Q, rest[i]), graph.edges)],
        lx |-> EntangleEdges(PauliX(Q, graph.nodes[1]), graph.edges),
        lz |-> EntangleEdges(PauliZ(Q, graph.nodes[1]), graph.edges)]

\* a computational-basis measurement of qubit a that gave outcome b
Measure(S, a, b) ==
    LET M == [PauliZ(DOMAIN S.lx.x, a) EXCEPT !.p = 2 * b]
        anti == {i \in DOMAIN S.gens : Anticommute(S.gens[i], M)}
    IN IF anti = {} THEN Opaque
       ELSE LET i0 == CHOOSE i \in anti : \A j \in anti : i <= j
                g0 == S.gens[i0]
                fix(A) == IF Anticommute(A, M) THEN PauliMul(A, g0) ELSE A
            IN [kind |-> "stabilizer",
                gens |-> [i \in DOMAIN S.gens |-> IF i = i0 THEN M ELSE fix(S.gens[i])],
                lx |-> fix(S.lx),
                lz |-> fix(S.lz)]

ApplyOp(S, o, b) ==
    IF S.kind # "stabilizer" THEN S
    ELSE IF o.op = "measure" THEN Measure(S, o.qubits[1], b)
    ELSE IF IsClifford(o)
         THEN [kind |-> "stabilizer",
               gens |-> [i \in DOMAIN S.gens |-> Conj(S.gens[i], o)],
               lx |-> Conj(S.lx, o),
               lz |-> Conj(S.lz, o)]
         ELSE Opaque

\* the operations ops applied in order, the k-th measurement giving outs[k]
Apply(S, ops, outs) ==
    LET nm(i) == Cardinality({j \in 1 .. i : ops[j].op = "measure"})
        F[i \in 0 .. Len(ops)] ==
            IF i = 0 THEN S
            ELSE ApplyOp(F[i - 1], ops[i],
                         IF ops[i].op = "measure" THEN outs[nm(i)] ELSE 0)
    IN F[Len(ops)]

\* a logical operator with every factor on a measured qubit replaced by the
\* eigenvalue the stabilizer of that qubit fixes
Reduce(L, gens) ==
    LET F[i \in 0 .. Len(gens)] ==
            IF i = 0 THEN L
            ELSE IF Support(F[i - 1]) \cap Support(gens[i]) # {}
                 THEN PauliMul(F[i - 1], gens[i])
                 ELSE F[i - 1]
    IN F[Len(gens)]

(***************************************************************************)
(* Execution of a gate graph against the shared outcome store.             *)
(***************************************************************************)
\* the operation a slot's gate class and parameter record make
Materialize(kind, params, collapse) ==
    IF kind = "Projector_B_phi"
    THEN Projector_B_phi(params.phi, params.measurement_label, collapse)
    ELSE [gate |-> kind, exponent |-> params.exponent]

\* the backend operations of one materialized operation on its qubit
Operations(operation, qubit) ==
    IF operation.gate = "Projector_B_phi"
    THEN Projector_decompose(operation, qubit)
    ELSE <<[op |-> operation.gate, exponent |-> <<operation.exponent, 1>>,
            qubits |-> <<qubit[1]>>]>>

\* the measurement keys among backend operations, in order
MeasureKeys(ops) ==
    LET idx == {i \in DOMAIN ops : ops[i].op = "measure"}
        F[i \in 0 .. Len(ops)] ==
            IF i = 0 THEN << >>
            ELSE IF i \in idx THEN Append(F[i - 1], ops[i].key) ELSE F[i - 1]
    IN F[Len(ops)]

\* the store after recording outs[i] under keys[i], one key after the other
RECURSIVE Record(_, _, _)
Record(st, keys, outs) ==
    IF keys = << >> THEN st
    ELSE LET k == Head(keys)
             st1 == [l \in DOMAIN st \cup {k} |-> IF l = k THEN Head(outs) ELSE st[l]]
         IN Record(st1, Tail(keys), Tail(outs))

Range(seq) == {seq[i] : i \in DOMAIN seq}

Self == gate[run.gate]
CurNode == Self.gate_graph.nodes[run.pos]
CurAttr == Self.gate_graph.attr[CurNode]
CurDep == CurAttr.previous_measurement_dependencies[run.slot]
MissingDeps == {l \in Range(CurDep.labels) : l \notin DOMAIN store}

\* each gate graph is executed once per trial, in the order the gates were made
StartOn(g, backend) ==
    /\ gate[g] # NoGate
    /\ run.status \in {"idle", "done"}
    /\ writes[g] = {}
    /\ \A h \in GateIds : h < g => writes[h] # {}
    /\ \E collapse \in BOOLEAN :
          run' = [status |-> "running", gate |-> g, pos |-> 1, slot |-> 1,
                  collapse |-> collapse, applied |-> << >>]
    /\ ret' = NoRet
    /\ qstate' = backend
    /\ UNCHANGED <<gate, ctor, store, writes, gs, test>>

\* an execution against a backend that is not followed
Start(g) == StartOn(g, Opaque)

\* an execution against the entangled resource of the gate graph
StartOnResource(g) == StartOn(g, Resource(gate[g].gate_graph))

ExecStep ==
    /\ run.status = "running"
    /\ IF MissingDeps # {}
       THEN /\ run' = [run EXCEPT !.status = "failed"]
            /\ UNCHANGED <<gate, ctor, store, writes, ret, qstate, gs, test>>
       ELSE LET labels == CurDep.labels
                args == [i \in DOMAIN labels |-> store[labels[i]]]
                params == CallProvider(Self, CurAttr.parameters[run.slot], args)
                operation == Materialize(CurAttr.gates[run.slot], params, run.collapse)
                ops == Operations(operation, <<CurNode>>)
                keys == MeasureKeys(ops)
                lastSlot == run.slot = Len(CurAttr.gates)
                lastNode == run.pos = Len(Self.gate_graph.nodes)
            IN \E outs \in [1 .. Len(keys) -> Outcomes] :
                  /\ store' = Record(store, keys, outs)
                  /\ writes' = [writes EXCEPT ![run.gate] = @ \cup Range(keys)]
                  /\ run' = [run EXCEPT
                        !.status = IF lastSlot /\ lastNode THEN "done" ELSE "running",
                        !.pos = IF lastSlot /\ ~lastNode THEN @ + 1 ELSE @,
                        !.slot = IF lastSlot THEN 1 ELSE @ + 1,
                        !.applied = Append(@,
                            [node |-> CurNode, slot |-> run.slot,
                             deps |-> labels, args |-> args,
                             operation |-> operation, ops |-> ops,
                             keys |-> keys, outs |-> outs,
                             added |-> Range(keys) \ DOMAIN store])]
                  /\ qstate' = Apply(qstate, ops, outs)
                  /\ UNCHANGED <<gate, ctor, ret, gs, test>>

\* the outcome store is discarded between independent trials
Reset ==
    /\ run.status \in {"done", "failed"}
    /\ store' = << >>
    /\ run' = Idle
    /\ writes' = [g \in GateIds |-> {}]
    /\ qstate' = Opaque
    /\ UNCHANGED <<gate, ctor, ret, gs, test>>

(***************************************************************************)
(* Calls and attribute assignments client code can make on a gate object   *)
(* between trials.                                                         *)
(***************************************************************************)
\* the gate_graph property returns the graph object
ReadGateGraph(g) ==
    /\ gate[g] # NoGate
    /\ run.status = "idle"
    /\ ret' = [kind |-> "gate_graph", value |-> gate[g].gate_graph]
    /\ ret' # ret
    /\ UNCHANGED <<gate, ctor, store, run, writes, qstate, gs, test>>

\* a parameter provider stored in the graph is called directly
InvokeProvider(g) ==
    /\ gate[g] # NoGate
    /\ run.status = "idle"
    /\ \E n \in DOMAIN gate[g].gate_graph.attr :
         \E i \in DOMAIN gate[g].gate_graph.attr[n].parameters :
            LET name == gate[g].gate_graph.attr[n].parameters[i]
            IN \E args \in [1 .. ProviderArity(name) -> Outcomes] :
                  ret' = [kind |-> "params", value |-> CallProvider(gate[g], name, args)]
    /\ ret' # ret
    /\ UNCHANGED <<gate, ctor, store, run, writes, qstate, gs, test>>

SetAlpha(g) ==
    /\ gate[g] # NoGate
    /\ run.status = "idle"
    /\ \E v \in Angles \ {gate[g].alpha} : gate' = [gate EXCEPT ![g].alpha = v]
    /\ ret' = NoRet
    /\ UNCHANGED <<ctor, store, run, writes, qstate, gs, test>>

SetBeta(g) ==
    /\ gate[g] # NoGate
    /\ run.status = "idle"
    /\ \E v \in Angles \ {gate[g].beta} : gate' = [gate EXCEPT ![g].beta = v]
    /\ ret' = NoRet
    /\ UNCHANGED <<ctor, store, run, writes, qstate, gs, test>>

SetGamma(g) ==
    /\ gate[g] # NoGate
    /\ run.status = "idle"
    /\ \E v \in Angles \ {gate[g].gamma} : gate' = [gate EXCEPT ![g].gamma = v]
    /\ ret' = NoRet
    /\ UNCHANGED <<ctor, store, run, writes, qstate, gs, test>>

SetGateLabel(g) ==
    /\ gate[g] # NoGate
    /\ run.status = "idle"
    /\ \E v \in GateLabels \ {gate[g].gate_label} : gate' = [gate EXCEPT ![g].gate_label = v]
    /\ ret' = NoRet
    /\ UNCHANGED <<ctor, store, run, writes, qstate, gs, test>>

(***************************************************************************)
(* Spec: gate objects are constructed and their graphs executed, one after *)
(* the other, against one outcome store.                                   *)
(***************************************************************************)
Next ==
    \/ \E g \in GateIds : ConstructSU2Gate(g)
    \/ \E g \in GateIds : ConstructPowGate(g)
    \/ \E g \in GateIds : ConstructPauli(g)
    \/ \E g \in GateIds : Start(g)
    \/ ExecStep
    \/ Reset

Spec == Init /\ [][Next]_vars

(***************************************************************************)
(* SpecBuild: gate objects are constructed and nothing else happens.       *)
(***************************************************************************)
NextBuild ==
    \/ \E g \in GateIds : ConstructSU2Gate(g)
    \/ \E g \in GateIds : ConstructPowGate(g)
    \/ \E g \in GateIds : ConstructPauli(g)

SpecBuild == Init /\ [][NextBuild]_vars

(***************************************************************************)
(* SpecAttr: one gate object, which client code also reads, calls into and *)
(* assigns attributes of between trials.                                   *)
(***************************************************************************)
NextAttr ==
    \/ ConstructSU2Gate(1)
    \/ ConstructPowGate(1)
    \/ ConstructPauli(1)
    \/ Start(1)
    \/ ExecStep
    \/ Reset
    \/ ReadGateGraph(1)
    \/ InvokeProvider(1)
    \/ SetAlpha(1)
    \/ SetBeta(1)
    \/ SetGamma(1)
    \/ SetGateLabel(1)

SpecAttr == Init /\ [][NextAttr]_vars

(***************************************************************************)
(* SpecSim: one gate object, executed against the entangled resource of    *)
(* its gate graph, the backend state being followed.                       *)
(***************************************************************************)
NextSim ==
    \/ ConstructSU2Gate(1)
    \/ ConstructPowGate(1)
    \/ ConstructPauli(1)
    \/ StartOnResource(1)
    \/ ExecStep
    \/ Reset

SpecSim == Init /\ [][NextSim]_vars

(***************************************************************************)
(* Properties.                                                             *)
(***************************************************************************)
Constructed == {g \in GateIds : gate[g] # NoGate}

\* the slots of node n of a gate object
Slots(self, n) == DOMAIN self.gate_graph.attr[n].gates

\* the measurement labels the providers of node m can return
ProducedLabels(self, m) ==
    UNION {LET name == self.gate_graph.attr[m].parameters[i]
               results == {CallProvider(self, name, args) :
                              args \in [1 .. ProviderArity(name) -> Outcomes]}
           IN {r.measurement_label :
                  r \in {x \in results : "measurement_label" \in DOMAIN x}}
           : i \in Slots(self, m)}

\* the labels node n lists in its dependencies
DependencyLabels(self, n) ==
    UNION {Range(self.gate_graph.attr[n].previous_measurement_dependencies[i].labels)
           : i \in DOMAIN self.gate_graph.attr[n].previous_measurement_dependencies}

\* C1: in every constructed gate, of every class and gate label, each label
\* among the dependencies of node n is the measurement label the provider of
\* some node m < n returns, and of no node m >= n.
C1_TopologicalValidity ==
    \A g \in Constructed :
       \A n \in DOMAIN gate[g].gate_graph.attr :
          \A l \in DependencyLabels(gate[g], n) :
             /\ \E m \in DOMAIN gate[g].gate_graph.attr :
                   m < n /\ l \in ProducedLabels(gate[g], m)
             /\ \A m \in DOMAIN gate[g].gate_graph.attr :
                   m >= n => l \notin ProducedLabels(gate[g], m)

C1_Witness ==
    /\ gate[1] # NoGate /\ gate[1].cls = "SU2Gate" /\ gate[1].gate_label = "g"
    /\ gate[2] # NoGate /\ gate[2].cls = "Z"
    /\ DependencyLabels(gate[1], 4) # {}
    /\ DependencyLabels(gate[2], 3) # {}

\* the order in which the slots of the five nodes are processed
ExecOrder == <<<<0, 1>>, <<1, 1>>, <<2, 1>>, <<3, 1>>, <<4, 1>>, <<4, 2>>>>

Executing == run.status \in {"running", "done", "failed"}

\* C2: an execution processes the slots in the order node 0, 1, 2, 3, then
\* the two slots of node 4, and whenever it stands before a slot, about to
\* invoke that slot's provider, every label of the slot's dependency tuple is
\* in the outcome store; no execution fails on a missing label.
C2_DependencyOrder ==
    Executing =>
       /\ Len(run.applied) <= Len(ExecOrder)
       /\ \A i \in DOMAIN run.applied :
             <<run.applied[i].node, run.applied[i].slot>> = ExecOrder[i]
       /\ run.status = "running" =>
             /\ <<CurNode, run.slot>> = ExecOrder[Len(run.applied) + 1]
             /\ MissingDeps = {}
       /\ run.status = "done" => Len(run.applied) = Len(ExecOrder)
       /\ run.status # "failed"

C2_Witness ==
    /\ run.status = "done"
    /\ Len(run.applied) = 6
    /\ run.applied[6].deps # << >>


\* the steps of the current execution, and the keys step i measured
Steps == DOMAIN run.applied
KeysOf(i) == Range(run.applied[i].keys)

C3_State ==
    Executing =>
       \* no label is written twice in one execution
       /\ \A i \in Steps :
             /\ Cardinality(KeysOf(i)) = Len(run.applied[i].keys)
             /\ \A j \in Steps : i < j => KeysOf(i) \cap KeysOf(j) = {}
       \* what was written stays as written
       /\ \A i \in Steps :
             \A k \in DOMAIN run.applied[i].keys :
                /\ run.applied[i].keys[k] \in DOMAIN store
                /\ store[run.applied[i].keys[k]] = run.applied[i].outs[k]
       \* a provider was only ever called with outcomes read from the store
       /\ \A i \in Steps :
             /\ Len(run.applied[i].args) = Len(run.applied[i].deps)
             /\ \A k \in DOMAIN run.applied[i].args : run.applied[i].args[k] \in Outcomes
       /\ run.status = "failed" => MissingDeps # {}

C3_FailedRead ==
    (run.status = "running" /\ MissingDeps # {})
       => (run'.status = "failed" /\ store' = store /\ run'.applied = run.applied)

\* C3: within one execution no label is written twice and a written label
\* keeps its value; a slot whose dependency label is not in the store makes
\* the execution fail, with no operation applied and nothing written.
C3_WriteOnceOutcomes == []C3_State /\ [][C3_FailedRead]_vars

C3_Witness ==
    /\ run.status = "failed"
    /\ Len(run.applied) = 1
    /\ run.applied[1].keys # << >>
    /\ MissingDeps # {}

\* C4: two gate instances executed one after the other against one store
\* write disjoint sets of labels.
C4_DisjointWrites ==
    \A g \in GateIds, h \in GateIds :
       g # h => writes[g] \cap writes[h] = {}

\* gate g shares its gate label with another live gate object
Colliding(g) ==
    \E h \in Constructed \ {g} : gate[h].gate_label = gate[g].gate_label

\* C5: a gate whose label collides with that of another live gate is never
\* executed (construction or execution fails first), and no execution step
\* writes over an entry the store already holds.
C5_CollisionIsFatal ==
    /\ \A g \in Constructed :
          (Colliding(g) /\ Executing /\ run.gate = g) => run.status = "failed"
    /\ Executing =>
          \A i \in Steps : run.applied[i].added = KeysOf(i)

\* the label b_qn[gate_label], spelled out
ExpectedLabel(n, gate_label) == "b_q" \o ToString(n) \o "[" \o gate_label \o "]"

\* the Euler angle node n measures
AngleOfNode(self, n) ==
    CASE n = 1 -> self.alpha
      [] n = 2 -> self.beta
      [] n = 3 -> self.gamma

\* the outcome node n produced in the current execution
Outcome(n) == run.applied[n + 1].outs[1]

\* C6: node 0 is measured at phi = 0 with no dependency; node k = 1, 2, 3 is
\* measured at minus its Euler angle, the sign flipped exactly when the
\* outcome of node k - 1 is 1, reading only the label of node k - 1; node k
\* records its outcome under b_qk[gate_label].
C6_AdaptiveAngles ==
    Executing =>
       \A i \in Steps :
          LET st == run.applied[i]
              n == st.node
          IN n <= 3 =>
                /\ st.operation.gate = "Projector_B_phi"
                /\ st.operation.measurement_label = ExpectedLabel(n, Self.gate_label)
                /\ st.keys = <<ExpectedLabel(n, Self.gate_label)>>
                /\ store[ExpectedLabel(n, Self.gate_label)] = st.outs[1]
                /\ n = 0 => st.operation.phi = 0 /\ st.deps = << >>
                /\ n >= 1 =>
                      /\ st.deps = <<ExpectedLabel(n - 1, Self.gate_label)>>
                      /\ st.operation.phi =
                            IF Outcome(n - 1) = 1
                            THEN AngleOfNode(Self, n)
                            ELSE -AngleOfNode(Self, n)

C6_Witness ==
    /\ run.status = "done"
    /\ Self.alpha = 1 /\ Self.beta = 1 /\ Self.gamma = 1
    /\ Outcome(0) = 1 /\ Outcome(1) = 0 /\ Outcome(2) = 1
    /\ run.applied[2].operation.phi = 1
    /\ run.applied[3].operation.phi = -1
    /\ run.applied[4].operation.phi = 1

\* C7: node 4 applies an X power and then a Z power; the X exponent is
\* b_q1 + b_q3, read from exactly those two labels, and acts as their parity;
\* the Z exponent is b_q0 + b_q2, read from exactly those two labels.
C7_CorrectiveUnitaries ==
    Executing =>
       /\ \A i \in Steps :
             LET st == run.applied[i]
             IN st.node = 4 =>
                   /\ st.slot = 1 =>
                         /\ i = 5
                         /\ st.operation.gate = "XPowGate"
                         /\ st.deps = <<ExpectedLabel(1, Self.gate_label),
                                        ExpectedLabel(3, Self.gate_label)>>
                         /\ st.operation.exponent = Outcome(1) + Outcome(3)
                         /\ PauliPowerParity(st.operation.exponent) =
                               (IF Outcome(1) = Outcome(3) THEN 0 ELSE 1)
                   /\ st.slot = 2 =>
                         /\ i = 6
                         /\ st.operation.gate = "ZPowGate"
                         /\ st.deps = <<ExpectedLabel(0, Self.gate_label),
                                        ExpectedLabel(2, Self.gate_label)>>
                         /\ st.operation.exponent = Outcome(0) + Outcome(2)
       /\ run.status = "done" =>
             /\ run.applied[5].node = 4 /\ run.applied[5].slot = 1
             /\ run.applied[6].node = 4 /\ run.applied[6].slot = 2

C7_Witness ==
    /\ run.status = "done"
    /\ Outcome(1) = 1 /\ Outcome(3) = 1
    /\ Outcome(0) = 0 /\ Outcome(2) = 1
    /\ run.applied[5].operation.exponent = 2
    /\ run.applied[6].operation.exponent = 1

\* C8: a projector step adds exactly one new entry, under its measurement
\* label, with value 0 or 1, with and without collapse_qubit_state; a
\* corrective unitary leaves the store as it is; a completed execution has
\* written exactly b_q0 .. b_q3 of the gate label.
C8_StoreEffect ==
    Executing =>
       /\ \A i \in Steps :
             LET st == run.applied[i]
             IN IF st.operation.gate = "Projector_B_phi"
                THEN /\ st.keys = <<st.operation.measurement_label>>
                     /\ st.added = {st.operation.measurement_label}
                     /\ st.outs[1] \in Outcomes
                ELSE st.keys = << >> /\ st.added = {}
       /\ run.status = "done" =>
             writes[run.gate] = {ExpectedLabel(n, Self.gate_label) : n \in 0 .. 3}

\* what a caller can observe of the gate graph of a gate object: its nodes,
\* edges, node attributes, and what each provider returns for each input
ProviderTable(self) ==
    [n \in DOMAIN self.gate_graph.attr |->
       [i \in Slots(self, n) |->
          LET name == self.gate_graph.attr[n].parameters[i]
          IN [args \in [1 .. ProviderArity(name) -> Outcomes] |->
                 CallProvider(self, name, args)]]]

GraphView(self) ==
    [nodes |-> self.gate_graph.nodes,
     edges |-> self.gate_graph.edges,
     attr |-> self.gate_graph.attr,
     providers |-> ProviderTable(self)]

\* C9: once a gate is constructed, no step changes its graph: nodes, edges,
\* node operations and dependencies, and the parameters the providers return.
C9_GraphImmutable ==
    [][\A g \in Constructed : GraphView(gate'[g]) = GraphView(gate[g])]_vars

\* C10: the Pauli power gates are SU2 gates with alpha = 0 and -pi * theta in
\* gamma (X), in beta (Z) or in both (Y); X, Y, Z are the theta = 1 presets;
\* their graph is that of an SU2Gate.
C10_PauliSubstitutions ==
    \A g \in Constructed :
       LET G == gate[g]
           c == ctor[g]
           scaled(angle) == angle = -(PI * c.exponent)
       IN /\ c.cls \in {"XPowGate", "X"} =>
                G.alpha = 0 /\ G.beta = 0 /\ scaled(G.gamma)
          /\ c.cls \in {"YPowGate", "Y"} =>
                G.alpha = 0 /\ scaled(G.beta) /\ scaled(G.gamma)
          /\ c.cls \in {"ZPowGate", "Z"} =>
                G.alpha = 0 /\ scaled(G.beta) /\ G.gamma = 0
          /\ c.cls = "X" => G.gamma = -PI
          /\ c.cls = "Y" => G.beta = -PI /\ G.gamma = -PI
          /\ c.cls = "Z" => G.beta = -PI
          /\ c.cls # "SU2Gate" =>
                /\ G.gate_graph.nodes = <<0, 1, 2, 3, 4>>
                /\ G.gate_graph.edges = {{0, 1}, {1, 2}, {2, 3}, {3, 4}}
                /\ G.gate_graph = SU2Gate_init("SU2Gate", 1, 1, 1, G.gate_label).gate_graph

C10_Witness ==
    /\ gate[1] # NoGate /\ gate[1].cls = "YPowGate"
    /\ ctor[1].exponent = 2
    /\ gate[1].beta = -8 /\ gate[1].gamma = -8
    /\ gate[2] # NoGate /\ gate[2].cls = "Z" /\ gate[2].beta = -PI

(***************************************************************************)
(* The unitary an execution has applied to the input state, read off the   *)
(* followed backend state.                                                 *)
(***************************************************************************)
\* the output qubit is the one of the last node of the gate graph
OutputNode(self) == self.gate_graph.nodes[Len(self.gate_graph.nodes)]

\* the images U X U^-1 and U Z U^-1 of the input's X and Z, on the output qubit
OutX == Reduce(qstate.lx, qstate.gens)
OutZ == Reduce(qstate.lz, qstate.gens)

\* sign * P, for a Pauli operator P and sign = (-1)^b
Signed(P, b) == [P EXCEPT !.p = (@ + 2 * (b % 2)) % 4]

ZeroAngles(self) == self.alpha = 0 /\ self.beta = 0 /\ self.gamma = 0

\* C11: in an execution of a gate with alpha = beta = gamma = 0, whatever the
\* outcomes b_q0..b_q3, all four measurement angles are 0; after the four
\* measurements the output qubit holds the input state up to the byproduct
\* X^(b_q1+b_q3) Z^(b_q0+b_q2); and after the two corrections of node 4 it
\* holds the input state itself, up to a global phase (X is mapped to X and
\* Z to Z).
C11_IdentityAtZeroAngles ==
    (run.status \in {"running", "done"} /\ ZeroAngles(Self)) =>
        LET Q == NodeSet(Self.gate_graph)
            out == OutputNode(Self)
        IN /\ qstate.kind = "stabilizer"
           /\ \A i \in DOMAIN run.applied :
                 run.applied[i].node # out => run.applied[i].operation.phi = 0
           /\ Len(run.applied) = 4 =>
                 /\ OutX = Signed(PauliX(Q, out), Outcome(0) + Outcome(2))
                 /\ OutZ = Signed(PauliZ(Q, out), Outcome(1) + Outcome(3))
           /\ run.status = "done" =>
                 /\ OutX = PauliX(Q, out)
                 /\ OutZ = PauliZ(Q, out)

\* a finished zero-angle execution whose outcomes made both corrections act
C11_Witness ==
    /\ run.status = "done"
    /\ ctor[1].cls = "SU2Gate"
    /\ ZeroAngles(Self)
    /\ Outcome(0) = 1 /\ Outcome(1) = 1 /\ Outcome(2) = 0 /\ Outcome(3) = 0
    /\ run.applied[5].operation.exponent = 1
    /\ run.applied[6].operation.exponent = 1
    /\ qstate.kind = "stabilizer"
    /\ OutX = PauliX(NodeSet(Self.gate_graph), 4)
    /\ OutZ = PauliZ(NodeSet(Self.gate_graph), 4)

\* the Pauli X gate maps X to X and Z to -Z, as the matrix X does
SimPauliX ==
    (run.status = "done" /\ ctor[1].cls = "X") =>
        /\ qstate.kind = "stabilizer"
        /\ OutX = PauliX(NodeSet(Self.gate_graph), 4)
        /\ OutZ = Signed(PauliZ(NodeSet(Self.gate_graph), 4), 1)

\* the Pauli Z gate maps X to -X and Z to Z, as the matrix Z does
SimPauliZ ==
    (run.status = "done" /\ ctor[1].cls = "Z") =>
        /\ qstate.kind = "stabilizer"
        /\ OutX = Signed(PauliX(NodeSet(Self.gate_graph), 4), 1)
        /\ OutZ = PauliZ(NodeSet(Self.gate_graph), 4)

\* C16: every node of every constructed gate graph carries the lists 'gates',
\* 'parameters' and 'previous_measurement_dependencies' of one length, 1 for
\* nodes 0-3 and 2 for node 4, and the i-th dependency tuple names one label
\* per input of the i-th provider, in the order of the provider's signature
\* (no label for node 0, whose provider takes no input).
C16_AlignedLists ==
    \A g \in Constructed :
       LET self == gate[g]
       IN \A n \in NodeSet(self.gate_graph) :
             LET a == self.gate_graph.attr[n]
                 len == IF n = 4 THEN 2 ELSE 1
             IN /\ Len(a.gates) = len
                /\ Len(a.parameters) = len
                /\ Len(a.previous_measurement_dependencies) = len
                /\ \A i \in 1 .. len :
                      LET dep == a.previous_measurement_dependencies[i]
                          inputs == ProviderInputs(a.parameters[i])
                      IN /\ Len(dep.labels) = Len(inputs)
                         /\ Len(inputs) = ProviderArity(a.parameters[i])
                         /\ \A j \in DOMAIN inputs :
                               dep.labels[j] = inputs[j] \o "[" \o self.gate_label \o "]"
                         /\ n = 0 => dep.is_none /\ dep.labels = << >>

\* a labelled gate whose node 4 lists (b_q1, b_q3) and (b_q0, b_q2)
C16_Witness ==
    /\ gate[1] # NoGate
    /\ gate[1].gate_label = "g"
    /\ gate[1].gate_graph.attr[4].previous_measurement_dependencies =
          <<Dep(<<"b_q1[g]", "b_q3[g]">>), Dep(<<"b_q0[g]", "b_q2[g]">>)>>
    /\ gate[1].gate_graph.attr[4].parameters = <<"_f_params_q4_t0", "_f_params_q4_t1">>
    /\ gate[1].gate_graph.attr[0].previous_measurement_dependencies = <<NoneDep>>

\* the steps of an execution that applied a Projector_B_phi
ProjectorSteps ==
    {i \in DOMAIN run.applied : run.applied[i].operation.gate = "Projector_B_phi"}

\* C17: the operations of every applied Projector_B_phi all act on its one
\* qubit and are, in this order: ZPowGate with exponent -phi/pi, H, one
\* measurement under measurement_label (the only measurement); with
\* collapse_qubit_state they are followed by H and then ZPowGate with
\* exponent +phi/pi, which undo the first two steps in reverse order, and
\* without it nothing follows the measurement.
C17_ProjectorOrder ==
    (run.status \in {"running", "done", "failed"}) =>
        \A i \in ProjectorSteps :
           LET self == run.applied[i].operation
               o == run.applied[i].ops
               q == run.applied[i].node
           IN /\ Len(o) = IF self.collapse_qubit_state THEN 5 ELSE 3
              /\ \A k \in DOMAIN o : o[k].qubits = <<q>>
              /\ o[1].op = "ZPowGate" /\ o[1].exponent = <<-self.phi, PI>>
              /\ o[2].op = "H"
              /\ o[3].op = "measure" /\ o[3].key = self.measurement_label
              /\ {k \in DOMAIN o : o[k].op = "measure"} = {3}
              /\ self.collapse_qubit_state =>
                    /\ o[4] = o[2]
                    /\ o[5].op = "ZPowGate" /\ o[5].exponent = <<self.phi, PI>>
                    /\ o[5].exponent[1] = -o[1].exponent[1]
                    /\ (IsClifford(o[1]) =>
                          \A P \in {PauliX({q}, q), PauliZ({q}, q)} :
                             Conj(Conj(Conj(Conj(P, o[1]), o[2]), o[4]), o[5]) = P)

\* a projector with a non-zero angle applied with collapse_qubit_state
C17_Witness ==
    /\ run.status = "running"
    /\ Len(run.applied) = 2
    /\ run.collapse
    /\ run.applied[2].operation.phi = -1
    /\ Len(run.applied[2].ops) = 5
    /\ run.applied[2].ops[5].exponent = <<-1, PI>>

\* a projector applied without collapse_qubit_state ends with its measurement
C17_WitnessNoCollapse ==
    /\ run.status = "running"
    /\ Len(run.applied) = 4
    /\ ~run.collapse
    /\ run.applied[4].operation.phi = 4
    /\ Len(run.applied[4].ops) = 3

(***************************************************************************)
(* Structural graphs (graphs/__init__.py, graphs/regular.py).  A networkx  *)
(* graph is kept as its nodes in insertion order, its edges as a set and   *)
(* the edges in the order they were added (field added), which fixes the   *)
(* order of every adjacency list.  An attribute that is None is << >>, a   *)
(* set Optional attribute v is <<v>>.                                      *)
(***************************************************************************)
None == << >>
Some(v) == <<v>>

\* networkx.grid_2d_graph(m, n): nodes (i, j), i in range(m), j in range(n);
\* first the edges between consecutive i, then those between consecutive j
grid_2d_graph(m, n) ==
    LET vertical == [k \in 1 .. (m - 1) * n |->
                        <<<<1 + ((k - 1) \div n), (k - 1) % n>>,
                          <<(k - 1) \div n, (k - 1) % n>>>>]
        horizontal == [k \in 1 .. m * (n - 1) |->
                        <<<<(k - 1) \div (n - 1), 1 + ((k - 1) % (n - 1))>>,
                          <<(k - 1) \div (n - 1), (k - 1) % (n - 1)>>>>]
        added == vertical \o horizontal
    IN [nodes |-> [k \in 1 .. m * n |-> <<(k - 1) \div n, (k - 1) % n>>],
        edges |-> {{added[k][1], added[k][2]} : k \in DOMAIN added},
        added |-> added]

\* the adjacency list of node u: its neighbours in the order of their edges
Adjacency(graph, u) ==
    LET F[i \in 0 .. Len(graph.added)] ==
            IF i = 0 THEN << >>
            ELSE IF graph.added[i][1] = u THEN Append(F[i - 1], graph.added[i][2])
            ELSE IF graph.added[i][2] = u THEN Append(F[i - 1], graph.added[i][1])
            ELSE F[i - 1]
    IN F[Len(graph.added)]

\* graph.edges: for every node in order, the edges to the neighbours that
\* were not visited before
EdgeView(graph) ==
    LET later(k) == SelectSeq(Adjacency(graph, graph.nodes[k]),
                              LAMBDA v : \A j \in 1 .. k - 1 : graph.nodes[j] # v)
        F[k \in 0 .. Len(graph.nodes)] ==
            IF k = 0 THEN << >>
            ELSE F[k - 1] \o [i \in DOMAIN later(k) |-> <<graph.nodes[k], later(k)[i]>>]
    IN F[Len(graph.nodes)]

GraphDescription == [is_grid |-> None, dimension |-> None]

Linear1dGraph(n_nodes) ==
    [cls |-> "Linear1dGraph",
     n_nodes |-> n_nodes,
     graph |-> path_graph(n_nodes),
     description |-> [GraphDescription EXCEPT !.is_grid = Some(FALSE),
                                              !.dimension = Some(1)]]

Grid2dGraph(n_rows, n_cols) ==
    [cls |-> "Grid2dGraph",
     n_rows |-> n_rows,
     n_cols |-> n_cols,
     n_nodes |-> n_cols * n_rows,
     graph |-> grid_2d_graph(n_cols, n_rows),
     description |-> [GraphDescription EXCEPT !.is_grid = Some(TRUE),
                                              !.dimension = Some(2)]]

\* a Graph subclass of client code: a chain that describes itself with the
\* given dimension, or leaves the description as it is made
ClientGraph(n_nodes, dimension) ==
    [cls |-> "ClientGraph",
     n_nodes |-> n_nodes,
     graph |-> path_graph(n_nodes),
     description |-> [GraphDescription EXCEPT !.dimension = dimension]]

Graph_nodes(self) == self.graph.nodes
Graph_edges(self) == EdgeView(self.graph)
get_neighborhood(self, node) == Adjacency(self.graph, node)
Graph_len(self) == self.n_nodes

(***************************************************************************)
(* Graph states (states/graph_states.py, states/cluster_states.py).  A     *)
(* state vector is kept as the circuit that prepares it from the all-zero  *)
(* state.                                                                  *)
(***************************************************************************)
LineQubit(x) == [qubit |-> "LineQubit", x |-> x]
GridQubit(row, col) == [qubit |-> "GridQubit", row |-> row, col |-> col]

\* list.index: the first position of v, 0 standing for ValueError
index(list, v) ==
    IF \E i \in DOMAIN list : list[i] = v
    THEN CHOOSE i \in DOMAIN list : list[i] = v /\ \A j \in 1 .. i - 1 : list[j] # v
    ELSE 0

ZeroState == [prep |-> << >>]

\* simulator.simulate(circuit, initial_state=...).final_state_vector
Simulate(circuit, initial_state) == [prep |-> initial_state.prep \o circuit]

AbstractGraphState_init(cls) ==
    [cls |-> cls,
     graph |-> None,
     qubits |-> None,
     initialization_circuit |-> None,
     state_vector |-> None]

\* faulty variant: a graph of any other dimension gets line qubits
initialize_qubits_Lenient(self) ==
    IF self.graph.description.dimension = Some(2)
    THEN [raised |-> FALSE,
          self |-> [self EXCEPT !.qubits =
                      [i \in DOMAIN Graph_nodes(self.graph) |->
                          GridQubit(Graph_nodes(self.graph)[i][1],
                                    Graph_nodes(self.graph)[i][2])]]]
    ELSE [raised |-> FALSE,
          self |-> [self EXCEPT !.qubits =
                      [i \in DOMAIN Graph_nodes(self.graph) |->
                          LineQubit(Graph_nodes(self.graph)[i])]]]

\* faulty variant: a grid qubit takes the coordinates of its node in reverse
initialize_qubits_Swapped(self) ==
    IF self.graph.description.dimension = Some(1)
    THEN [raised |-> FALSE,
          self |-> [self EXCEPT !.qubits =
                      [i \in DOMAIN Graph_nodes(self.graph) |->
                          LineQubit(Graph_nodes(self.graph)[i])]]]
    ELSE IF self.graph.description.dimension = Some(2)
    THEN [raised |-> FALSE,
          self |-> [self EXCEPT !.qubits =
                      [i \in DOMAIN Graph_nodes(self.graph) |->
                          GridQubit(Graph_nodes(self.graph)[i][2],
                                    Graph_nodes(self.graph)[i][1])]]]
    ELSE [raised |-> TRUE, error |-> "TypeError", self |-> self]

initialize_qubits(self) ==
    IF self.graph.description.dimension = Some(1)
    THEN [raised |-> FALSE,
          self |-> [self EXCEPT !.qubits =
                      [i \in DOMAIN Graph_nodes(self.graph) |->
                          LineQubit(Graph_nodes(self.graph)[i])]]]
    ELSE IF self.graph.description.dimension = Some(2)
    THEN [raised |-> FALSE,
          self |-> [self EXCEPT !.qubits =
                      [i \in DOMAIN Graph_nodes(self.graph) |->
                          GridQubit(Graph_nodes(self.graph)[i][1],
                                    Graph_nodes(self.graph)[i][2])]]]
    ELSE [raised |-> TRUE, error |-> "TypeError", self |-> self]

\* faulty variant: the CZ operations are appended before the Hadamards
produce_initialization_circuit_CZFirst(self) ==
    LET nodes == Graph_nodes(self.graph)
        edges == Graph_edges(self.graph)
    IN [self EXCEPT !.initialization_circuit =
          [k \in DOMAIN edges |->
                [op |-> "CZ",
                 qubits |-> <<self.qubits[index(nodes, edges[k][1])],
                              self.qubits[index(nodes, edges[k][2])]>>]]
          \o [i \in DOMAIN self.qubits |-> [op |-> "H", qubits |-> <<self.qubits[i]>>]]]

produce_initialization_circuit(self) ==
    LET nodes == Graph_nodes(self.graph)
        edges == Graph_edges(self.graph)
    IN [self EXCEPT !.initialization_circuit =
          [i \in DOMAIN self.qubits |-> [op |-> "H", qubits |-> <<self.qubits[i]>>]]
          \o [k \in DOMAIN edges |->
                [op |-> "CZ",
                 qubits |-> <<self.qubits[index(nodes, edges[k][1])],
                              self.qubits[index(nodes, edges[k][2])]>>]]]

compute_state_vector(self) ==
    [self EXCEPT !.state_vector = Simulate(self.initialization_circuit, ZeroState)]

\* _setup once _graph is set: the three steps in order, an exception of the
\* first one leaving the object as it is.  raise NotImplemented raises a
\* TypeError, NotImplemented being no exception
GraphState_setup(self) ==
    LET r == initialize_qubits(self)
    IN IF r.raised
       THEN [status |-> "raised", error |-> r.error, self |-> r.self]
       ELSE [status |-> "built",
             self |-> compute_state_vector(produce_initialization_circuit(r.self))]

GraphState_init(graph) ==
    GraphState_setup([AbstractGraphState_init("GraphState") EXCEPT !.graph = graph])

ClusterState1d_init(n_qubits) ==
    GraphState_setup([AbstractGraphState_init("ClusterState1d")
                        EXCEPT !.graph = Linear1dGraph(n_qubits)])

ClusterState2d_init(n_qubits_rows, n_qubits_cols) ==
    GraphState_setup([AbstractGraphState_init("ClusterState2d")
                        EXCEPT !.graph = Grid2dGraph(n_qubits_rows, n_qubits_cols)])

get_qubit(self, args) ==
    IF Len(args) \notin {1, 2} THEN [raised |-> TRUE]
    ELSE LET idx == IF Len(args) = 1
                    THEN index(Graph_nodes(self.graph), args[1])
                    ELSE index(Graph_nodes(self.graph), args)
         IN IF idx = 0 THEN [raised |-> TRUE]
            ELSE [raised |-> FALSE, value |-> self.qubits[idx]]

(***************************************************************************)
(* TestClusterState (states/cluster_states.py).                            *)
(***************************************************************************)
\* the Pauli operator a circuit of X, Z and I operations multiplies to
OpPauli(Q, o) ==
    CASE o.op = "X" -> PauliX(Q, o.qubits[1])
      [] o.op = "Z" -> PauliZ(Q, o.qubits[1])
      [] o.op = "I" -> PauliI(Q)

CircuitPauli(Q, ops) ==
    LET F[i \in 0 .. Len(ops)] ==
            IF i = 0 THEN PauliI(Q) ELSE PauliMul(OpPauli(Q, ops[i]), F[i - 1])
    IN F[Len(ops)]

\* the expectation of the Pauli operator K in the state a: that of K taken
\* back through the circuit preparing a, in the all-zero state
Expectation(Q, a, K) ==
    LET n == Len(a.prep)
        F[i \in 0 .. n] == IF i = 0 THEN K ELSE Conj(F[i - 1], a.prep[n - i + 1])
        K0 == F[n]
    IN IF \E q \in Q : K0.x[q] = 1
       THEN [real |-> 0, imag |-> 0]
       ELSE [real |-> CASE K0.p = 0 -> 1 [] K0.p = 2 -> -1 [] OTHER -> 0,
             imag |-> CASE K0.p = 1 -> 1 [] K0.p = 3 -> -1 [] OTHER -> 0]

\* cirq.dot(a, b), b being the state a after a circuit of X, Z and I operations
Dot(Q, a, b) ==
    Expectation(Q, a, CircuitPauli(Q, SubSeq(b.prep, Len(a.prep) + 1, Len(b.prep))))

Max(a, b) == IF a >= b THEN a ELSE b
abs(a) == IF a >= 0 THEN a ELSE -a
isclose(a, b) == a = b

\* the first k entries of a shuffled copy of a list, for any seed
ShuffledPrefixes(list, k) ==
    {[i \in 1 .. k |-> list[f[i]]] :
        f \in {g \in [1 .. k -> DOMAIN list] :
                  \A i, j \in 1 .. k : i # j => g[i] # g[j]}}

\* __init__ and _setup; tested_nodes_size is the fraction <<num, den>> and
\* shuffled the prefix random.shuffle leaves at the front
TestClusterState_init(state, sample_nodes, tested_nodes_size, shuffled) ==
    [state |-> state,
     sample_nodes |-> sample_nodes,
     tested_nodes_size |-> tested_nodes_size,
     nodes_to_test |-> IF sample_nodes THEN shuffled ELSE Graph_nodes(state.graph),
     scalar_products |-> None]

\* the number of nodes _setup keeps when it samples
NodesToTest(state, tested_nodes_size) ==
    Max(1, (Graph_len(state.graph) * tested_nodes_size[1]) \div tested_nodes_size[2])

compute_scalar_product(self) ==
    LET state == self.state
        Q == Range(state.qubits)
        nodes == Graph_nodes(state.graph)
        Circuit(node) ==
            LET neighborhood == get_neighborhood(state.graph, node)
            IN <<[op |-> "X", qubits |-> <<get_qubit(state, <<node>>).value>>]>>
               \o [i \in DOMAIN neighborhood |->
                     [op |-> "Z", qubits |-> <<get_qubit(state, <<neighborhood[i]>>).value>>]]
               \o [i \in DOMAIN nodes |->
                     [op |-> "I", qubits |-> <<get_qubit(state, <<nodes[i]>>).value>>]]
    IN [self EXCEPT !.scalar_products =
          [i \in DOMAIN self.nodes_to_test |->
              Dot(Q, state.state_vector,
                  Simulate(Circuit(self.nodes_to_test[i]), state.state_vector))]]

\* faulty variant: a scalar product passes only with real part +1
TestClusterState_run_Signed(self) ==
    LET done == compute_scalar_product(self)
    IN [self |-> done,
        result |-> \A i \in DOMAIN done.scalar_products :
                      /\ isclose(done.scalar_products[i].real, 1)
                      /\ isclose(done.scalar_products[i].imag, 0)]

TestClusterState_run(self) ==
    LET done == compute_scalar_product(self)
    IN [self |-> done,
        result |-> \A i \in DOMAIN done.scalar_products :
                      /\ isclose(abs(done.scalar_products[i].real), 1)
                      /\ isclose(done.scalar_products[i].imag, 0)]

(***************************************************************************)
(* SpecGraph: a graph state is built, its qubits are looked up and states  *)
(* over its graph are tested.                                              *)
(***************************************************************************)
gateVars == <<gate, ctor, store, run, writes, qstate>>

\* the graphs handed to GraphState
GraphInputs ==
    {Linear1dGraph(n) : n \in 1 .. MaxNodes}
    \cup {Grid2dGraph(r, c) : r \in 1 .. MaxSide, c \in 1 .. MaxSide}
    \cup {ClientGraph(n, d) : n \in 1 .. MaxNodes, d \in {None, Some(0), Some(3)}}

\* the coordinates get_qubit is called with: an index, or a pair given as
\* two arguments or as one tuple
CoordinateInputs(self) ==
    IF self.graph.description.dimension = Some(1)
    THEN {<<i>> : i \in 0 .. MaxNodes}
    ELSE {<<a, b>> : a \in 0 .. MaxSide, b \in 0 .. MaxSide}
         \cup {<<(<<a, b>>)>> : a \in 0 .. MaxSide, b \in 0 .. MaxSide}

\* the states handed to the tester: the built object, or a state object of
\* client code over the same graph and qubits whose vector is another one
StatesUnderTest(self) ==
    {self} \cup
    {[self EXCEPT !.state_vector =
         Simulate(<<[op |-> g, qubits |-> <<q>>]>>, self.state_vector)] :
       g \in {"Z", "H"}, q \in Range(self.qubits)}

BuildClusterState1d ==
    /\ gs = NoState
    /\ \E n_qubits \in 1 .. MaxNodes : gs' = ClusterState1d_init(n_qubits)
    /\ ret' = NoRet
    /\ test' = NoTest
    /\ UNCHANGED gateVars

BuildClusterState2d ==
    /\ gs = NoState
    /\ \E n_qubits_rows \in 1 .. MaxSide, n_qubits_cols \in 1 .. MaxSide :
          gs' = ClusterState2d_init(n_qubits_rows, n_qubits_cols)
    /\ ret' = NoRet
    /\ test' = NoTest
    /\ UNCHANGED gateVars

BuildGraphState ==
    /\ gs = NoState
    /\ \E graph \in GraphInputs : gs' = GraphState_init(graph)
    /\ ret' = NoRet
    /\ test' = NoTest
    /\ UNCHANGED gateVars

GetQubit ==
    /\ gs.status = "built"
    /\ test = NoTest
    /\ \E args \in CoordinateInputs(gs.self) :
          ret' = [kind |-> "qubit", args |-> args, result |-> get_qubit(gs.self, args)]
    /\ UNCHANGED <<gs, test>>
    /\ UNCHANGED gateVars

\* a tester is made for a freshly built state and run
RunTest ==
    /\ gs.status = "built"
    /\ ret = NoRet
    /\ test = NoTest
    /\ \E state \in StatesUnderTest(gs.self), sample_nodes \in BOOLEAN,
          tested_nodes_size \in {<<1, 5>>, <<1, 3>>} :
          \E shuffled \in IF sample_nodes
                           THEN ShuffledPrefixes(Graph_nodes(state.graph),
                                                 NodesToTest(state, tested_nodes_size))
                           ELSE {<< >>} :
             LET r == TestClusterState_run(
                        TestClusterState_init(state, sample_nodes,
                                              tested_nodes_size, shuffled))
             IN /\ test' = [status |-> "run", self |-> r.self, result |-> r.result]
                /\ ret' = [kind |-> "bool", value |-> r.result]
    /\ UNCHANGED gs
    /\ UNCHANGED gateVars

NextGraph ==
    \/ BuildClusterState1d
    \/ BuildClusterState2d
    \/ BuildGraphState
    \/ GetQubit
    \/ RunTest

SpecGraph == Init /\ [][NextGraph]_vars

(***************************************************************************)
(* Properties of graph states.                                             *)
(***************************************************************************)
Built == gs.status = "built"

\* the qubit that stands at a node of a graph of dimension 1 or 2
QubitAt(graph, v) ==
    IF graph.description.dimension = Some(1) THEN LineQubit(v) ELSE GridQubit(v[1], v[2])

\* the positions of the initialization circuit holding a given operation
Positions(circuit, o) == {i \in DOMAIN circuit : circuit[i] = o}
Hadamards(circuit) == {i \in DOMAIN circuit : circuit[i].op = "H"}
CZs(circuit) == {i \in DOMAIN circuit : circuit[i].op = "CZ"}

\* C12: the initialization circuit of every built graph state holds exactly
\* one H per qubit and exactly one CZ per structural edge, on the qubits of
\* the edge's two endpoints, and nothing else; every H stands before every
\* CZ; a 3-node chain gives H on qubits 0, 1, 2 and then CZ(0,1), CZ(1,2);
\* a 2x2 grid gives 4 CZ operations.
C12_InitializationCircuit ==
    Built =>
       LET self == gs.self
           circuit == self.initialization_circuit
           graph == self.graph
           nodes == Graph_nodes(graph)
       IN /\ \A i \in DOMAIN nodes :
                Cardinality(Positions(circuit,
                    [op |-> "H", qubits |-> <<QubitAt(graph, nodes[i])>>])) = 1
          /\ Cardinality(Hadamards(circuit)) = Len(nodes)
          /\ \A e \in graph.graph.edges :
                Cardinality({i \in CZs(circuit) :
                    /\ Len(circuit[i].qubits) = 2
                    /\ {circuit[i].qubits[1], circuit[i].qubits[2]}
                          = {QubitAt(graph, v) : v \in e}}) = 1
          /\ Cardinality(CZs(circuit)) = Cardinality(graph.graph.edges)
          /\ Hadamards(circuit) \cup CZs(circuit) = DOMAIN circuit
          /\ \A i \in Hadamards(circuit), j \in CZs(circuit) : i < j
          /\ (graph.cls = "Linear1dGraph" /\ graph.n_nodes = 3) =>
                circuit = <<[op |-> "H", qubits |-> <<LineQubit(0)>>],
                            [op |-> "H", qubits |-> <<LineQubit(1)>>],
                            [op |-> "H", qubits |-> <<LineQubit(2)>>],
                            [op |-> "CZ", qubits |-> <<LineQubit(0), LineQubit(1)>>],
                            [op |-> "CZ", qubits |-> <<LineQubit(1), LineQubit(2)>>]>>
          /\ (graph.cls = "Grid2dGraph" /\ graph.n_rows = 2 /\ graph.n_cols = 2) =>
                Cardinality(CZs(circuit)) = 4

\* the cluster state of a 2x2 grid, with its four H and its four CZ
C12_Witness ==
    /\ Built
    /\ gs.self.cls = "ClusterState2d"
    /\ gs.self.graph.n_rows = 2 /\ gs.self.graph.n_cols = 2
    /\ Len(gs.self.initialization_circuit) = 8
    /\ gs.self.initialization_circuit[4] = [op |-> "H", qubits |-> <<GridQubit(1, 1)>>]
    /\ gs.self.initialization_circuit[5].op = "CZ"

\* the cluster state of a 3-node chain
C12_WitnessChain ==
    /\ Built
    /\ gs.self.cls = "ClusterState1d"
    /\ Len(gs.self.qubits) = 3
    /\ Len(gs.self.initialization_circuit) = 5

\* C13: the qubit list of every built graph state has one qubit per node of
\* the graph, in node order; on a chain of n nodes get_qubit(i) is
\* LineQubit(i) for 0 <= i < n; on a grid every node (a, b) of the graph is
\* returned as GridQubit(a, b) by get_qubit(a, b), the nodes being the pairs
\* with a below n_cols and b below n_rows; the 2x2 grid has exactly the nodes
\* (0,0), (0,1), (1,0), (1,1); and a lookup that returns, returns the qubit
\* of the node it was given.
C13_QubitLookup ==
    Built =>
       LET self == gs.self
           graph == self.graph
           nodes == Graph_nodes(graph)
       IN /\ Len(self.qubits) = Len(nodes)
          /\ \A i \in DOMAIN nodes : self.qubits[i] = QubitAt(graph, nodes[i])
          /\ graph.cls = "Linear1dGraph" =>
                /\ Len(nodes) = graph.n_nodes
                /\ \A i \in 0 .. graph.n_nodes - 1 :
                      get_qubit(self, <<i>>) = [raised |-> FALSE, value |-> LineQubit(i)]
          /\ graph.cls = "Grid2dGraph" =>
                /\ Range(nodes) = {<<a, b>> : a \in 0 .. graph.n_cols - 1,
                                              b \in 0 .. graph.n_rows - 1}
                /\ Len(nodes) = graph.n_rows * graph.n_cols
                /\ \A v \in Range(nodes) :
                      get_qubit(self, v) = [raised |-> FALSE, value |-> GridQubit(v[1], v[2])]
                /\ (graph.n_rows = 2 /\ graph.n_cols = 2) =>
                      Range(nodes) = {<<0, 0>>, <<0, 1>>, <<1, 0>>, <<1, 1>>}
          /\ (ret.kind = "qubit" /\ ~ret.result.raised) =>
                ret.result.value =
                   QubitAt(graph, IF Len(ret.args) = 2 THEN ret.args
                                  ELSE ret.args[1])

\* get_qubit(1, 0) on a grid with two qubits in a column and one in a row
\* has returned GridQubit(1, 0)
C13_Witness ==
    /\ Built
    /\ gs.self.cls = "ClusterState2d"
    /\ gs.self.graph.n_rows = 1 /\ gs.self.graph.n_cols = 2
    /\ ret = [kind |-> "qubit", args |-> <<1, 0>>,
              result |-> [raised |-> FALSE, value |-> GridQubit(1, 0)]]

\* get_qubit(2) on a chain of three qubits has returned LineQubit(2)
C13_WitnessChain ==
    /\ Built
    /\ gs.self.cls = "ClusterState1d"
    /\ Len(gs.self.qubits) = 3
    /\ ret = [kind |-> "qubit", args |-> <<2>>,
              result |-> [raised |-> FALSE, value |-> LineQubit(2)]]

\* C14: a graph state constructed from a graph whose description.dimension
\* is neither 1 nor 2, None included, is not built: the construction raises
\* in the initialization of the qubits, which leaves the qubit list, the
\* initialization circuit and the state vector unset.
C14_UnsupportedDimension ==
    (gs.status # "none" /\ gs.self.graph.description.dimension \notin {Some(1), Some(2)}) =>
        /\ gs.status = "raised"
        /\ gs.self.qubits = None
        /\ gs.self.initialization_circuit = None
        /\ gs.self.state_vector = None

\* a construction from a graph whose description was left with dimension None
C14_Witness ==
    /\ gs.status = "raised"
    /\ gs.self.cls = "GraphState"
    /\ gs.self.graph.description.dimension = None
    /\ gs.self.graph.n_nodes = 2
    /\ gs.self.initialization_circuit = None

\* the correlation operator of node a: X on its qubit, Z on the qubit of
\* every node that shares an edge with it
CorrelationOperator(self, a) ==
    LET Q == Range(self.qubits)
        graph == self.graph
        N == {b \in Range(Graph_nodes(graph)) : b # a /\ {a, b} \in graph.graph.edges}
    IN [p |-> 0,
        x |-> [q \in Q |-> IF q = QubitAt(graph, a) THEN 1 ELSE 0],
        z |-> [q \in Q |-> IF \E b \in N : q = QubitAt(graph, b) THEN 1 ELSE 0]]

\* every scalar product of the tester that ran has a real part among signs
\* and imaginary part 0
AllPass(signs) ==
    \A i \in DOMAIN test.self.scalar_products :
       /\ test.self.scalar_products[i].real \in signs
       /\ test.self.scalar_products[i].imag = 0

\* the first half of C15: on every built state, the 3-node chain and the
\* 2x2 grid among them, every correlation operator K_a has expectation +1
C15_BuiltEigenvalues ==
    Built =>
       \A a \in Range(Graph_nodes(gs.self.graph)) :
          Expectation(Range(gs.self.qubits), gs.self.state_vector,
                      CorrelationOperator(gs.self, a)) = [real |-> 1, imag |-> 0]

\* the scalar products of a tester over the nodes it tests are the
\* expectations of their correlation operators in the state under test
C15_ScalarProducts ==
    test.status = "run" =>
       LET self == test.self
       IN /\ Len(self.scalar_products) = Len(self.nodes_to_test)
          /\ \A i \in DOMAIN self.nodes_to_test :
                self.scalar_products[i] =
                   Expectation(Range(self.state.qubits), self.state.state_vector,
                               CorrelationOperator(self.state, self.nodes_to_test[i]))

\* C15, as amended: on every built state every correlation operator K_a has
\* eigenvalue +1, and TestClusterState.run returns True exactly when the
\* scalar product of every tested node has real part +1 or -1 and imaginary
\* part 0.
C15_StabilizerTest ==
    /\ C15_BuiltEigenvalues
    /\ C15_ScalarProducts
    /\ test.status = "run" => (test.result <=> AllPass({1, -1}))

\* C15, as stated: run returns True exactly when the scalar product of every
\* tested node has real part +1 and imaginary part 0.
C15_AsStated ==
    /\ C15_BuiltEigenvalues
    /\ test.status = "run" => (test.result <=> AllPass({1}))

\* the tester has passed a state over the 3-node chain in which the
\* correlation operator of node 1 has eigenvalue -1
C15_Witness ==
    /\ Built
    /\ gs.self.cls = "ClusterState1d"
    /\ Len(gs.self.qubits) = 3
    /\ test.status = "run"
    /\ ~test.self.sample_nodes
    /\ test.self.scalar_products =
          <<[real |-> 1, imag |-> 0], [real |-> -1, imag |-> 0], [real |-> 1, imag |-> 0]>>
    /\ test.result

\* the tester has passed the cluster state of the 2x2 grid, all four scalar
\* products being +1
C15_WitnessGrid ==
    /\ Built
    /\ gs.self.cls = "ClusterState2d"
    /\ Len(gs.self.qubits) = 4
    /\ test.status = "run"
    /\ test.self.state = gs.self
    /\ Len(test.self.scalar_products) = 4
    /\ AllPass({1})
    /\ test.result

\* the tester has failed a state in which a scalar product is 0
C15_WitnessFail ==
    /\ test.status = "run"
    /\ ~test.result
    /\ \E i \in DOMAIN test.self.scalar_products : test.self.scalar_products[i].real = 0

====
